---- MODULE Spec2Model ----
(***************************************************************************)
(* Authentication / session subsystem of the Online Health Consultation    *)
(* service: AuthService (register, login, refresh with rotation and reuse  *)
(* detection, logout), the JWT codec and the user_sessions table; and of    *)
(* the clinic: appointment status updates by doctors and admins, ratings   *)
(* by patients, rating moderation and the doctor's rating aggregate.       *)
(*                                                                         *)
(* Time is counted in days: the clock `now` is what `new Date()` and the   *)
(* JWT library read.  Two calls in the same tick are two calls within the  *)
(* same clock instant (the JWT `iat` claim has one-second resolution).     *)
(* The express rate limiters are not modelled: every request here is one   *)
(* the limiter admitted.                                                   *)
(***************************************************************************)
EXTENDS Integers, Sequences, FiniteSets, TLC

VARIABLES
    now,       \* the wall clock, in days
    cfg,       \* env: the configuration parsed at process start
    users,     \* table users: sequence of rows, id = index
    sessions,  \* table user_sessions: sequence of rows, id = index
    lineage,   \* history: <<presented token, issued token>> of every issuance
    killed,    \* history: tokens already issued when a replay of their parent was detected
    req,       \* in-flight refresh calls: position and locals of each
    resp,      \* the last completed call: operation, argument, response
    reg,       \* in-flight register calls: position and locals of each
    refreshTokens,  \* table refresh_tokens of the first schema: sequence of rows
    jar,       \* the browser's cookie jar: the refreshToken cookie and its path
    appts,     \* table appointments: sequence of rows, id = index
    ratings,   \* table ratings: sequence of rows, id = index
    doctors,   \* table doctor_profiles: ratingAverage and ratingCount of each
    call       \* in-flight clinic calls: position and locals of each

vars == <<now, cfg, users, sessions, lineage, killed, req, resp, reg, refreshTokens, jar,
          appts, ratings, doctors, call>>

\* What the session-store AuthService, called directly, never touches
ext == <<reg, refreshTokens, jar, appts, ratings, doctors, call>>

\* The tables and calls of the clinic
clinic == <<appts, ratings, doctors, call>>

----------------------------------------------------------------------------
(* Bounds of the model *)

MaxTicks == 2
MaxSessions == 3
MaxUsers == 2

Reqs == {1, 2}
Emails == {"patient1@example.com", "dr.smith@healthconsult.com", "nobody@example.com"}
Passwords == {"password123", "wrong"}
RefreshTtlValues == {7, 9}

(* Program constants *)

SESSION_DAYS == 7

NULL == -1

\* No token (a login, an empty slot), and a string that is no JWT of any key
NoToken == [key |-> "absent", id |-> 0, email |-> "", role |-> "", iat |-> 0, exp |-> 0]

Garbage == [key |-> "malformed", id |-> 0, email |-> "", role |-> "", iat |-> 0, exp |-> 0]

\* The clock moves by a day or by the session lifetime; ClockSteps(t) is the
\* number of moves that reach day t.
ClockJumps == {1, SESSION_DAYS}

ClockSteps(t) == (t \div SESSION_DAYS) + (t % SESSION_DAYS)

----------------------------------------------------------------------------
(* Token codec (utils/jwt) *)

\* jwt.sign(payload, secret, {expiresIn}): the claims, iat = now, exp = iat + ttl,
\* and the key the signature was made with.
JwtSign(payload, secret, ttl, t) ==
    [key |-> secret, id |-> payload.id, email |-> payload.email,
     role |-> payload.role, iat |-> t, exp |-> t + ttl]

\* jwt.verify(token, secret): the signature must be the secret's and the
\* clock must be before exp (jsonwebtoken rejects when clock >= exp).
JwtVerify(token, secret, t) ==
    /\ token.key = secret
    /\ t < token.exp

signAccessToken(payload, t) == JwtSign(payload, cfg.JWT_SECRET, cfg.JWT_ACCESS_EXPIRE, t)

signRefreshToken(payload, t) ==
    JwtSign(payload, cfg.JWT_REFRESH_SECRET, cfg.JWT_REFRESH_EXPIRE, t)

verifyRefreshToken(token, t) == JwtVerify(token, cfg.JWT_REFRESH_SECRET, t)

verifyAccessToken(token, t) == JwtVerify(token, cfg.JWT_SECRET, t)

\* bcrypt: hashPassword, and comparePassword(password, hashedPassword)
hashPassword(password) == <<"bcrypt", password>>

comparePassword(password, hashedPassword) == hashedPassword = hashPassword(password)

----------------------------------------------------------------------------
(* Session store *)

\* AuthService.hashToken: SHA-256 hex digest of the raw token
hashToken(token) == <<"sha256", token>>

SessionIds == 1..Len(sessions)

\* prisma.userSession.findUnique({where: {refreshTokenHash}}): the id, or 0
findUnique(hash) ==
    IF \E i \in SessionIds : sessions[i].refreshTokenHash = hash
    THEN CHOOSE i \in SessionIds : sessions[i].refreshTokenHash = hash
    ELSE 0

\* the row createSession inserts
NewSession(userId, refreshToken, t) ==
    [userId |-> userId, refreshTokenHash |-> hashToken(refreshToken),
     expiresAt |-> t + SESSION_DAYS, revokedAt |-> NULL]

\* UNIQUE INDEX user_sessions_refreshTokenHash_key
HashTaken(hash) == \E i \in SessionIds : sessions[i].refreshTokenHash = hash

\* Faulty variant: update instead of updateMany, only the user's first active row
revokeFirstUserSession(ss, userId, t) ==
    [i \in 1..Len(ss) |->
        IF /\ ss[i].userId = userId /\ ss[i].revokedAt = NULL
           /\ \A j \in 1..(i - 1) : ~(ss[j].userId = userId /\ ss[j].revokedAt = NULL)
        THEN [ss[i] EXCEPT !.revokedAt = t]
        ELSE ss[i]]

\* AuthService.revokeAllUserSessions: updateMany where userId and revokedAt null
revokeAllUserSessions(ss, userId, t) ==
    [i \in 1..Len(ss) |->
        IF ss[i].userId = userId /\ ss[i].revokedAt = NULL
        THEN [ss[i] EXCEPT !.revokedAt = t]
        ELSE ss[i]]

\* Faulty variant: the filter names the owner of the matching row, not the row
revokeByOwnerOfHash(ss, hash, t) ==
    [i \in 1..Len(ss) |->
        IF /\ ss[i].revokedAt = NULL
           /\ \E j \in 1..Len(ss) : ss[j].refreshTokenHash = hash /\ ss[j].userId = ss[i].userId
        THEN [ss[i] EXCEPT !.revokedAt = t]
        ELSE ss[i]]

\* Faulty variant: the filter revokedAt: null is missing, revokedAt is written again
revokeByHashAgain(ss, hash, t) ==
    [i \in 1..Len(ss) |->
        IF ss[i].refreshTokenHash = hash
        THEN [ss[i] EXCEPT !.revokedAt = t]
        ELSE ss[i]]

\* logout's updateMany where refreshTokenHash and revokedAt null
revokeByHash(ss, hash, t) ==
    [i \in 1..Len(ss) |->
        IF ss[i].refreshTokenHash = hash /\ ss[i].revokedAt = NULL
        THEN [ss[i] EXCEPT !.revokedAt = t]
        ELSE ss[i]]

\* Faulty variant: the transaction only creates the new row
rotateTxNoRevoke(ss, sid, newRefreshToken, t) ==
    Append(ss, NewSession(ss[sid].userId, newRefreshToken, t))

\* Faulty variant: the new row takes the userId of the table's first row
rotateTxFirstOwner(ss, sid, newRefreshToken, t) ==
    Append([ss EXCEPT ![sid].revokedAt = t],
           NewSession(ss[1].userId, newRefreshToken, t))

\* the rotation transaction: update {where id} data {revokedAt}, then create
rotateTx(ss, sid, newRefreshToken, t) ==
    Append([ss EXCEPT ![sid].revokedAt = t],
           NewSession(ss[sid].userId, newRefreshToken, t))

\* spec 3: a session is active iff revokedAt IS NULL AND expiresAt > now
Active(s, t) == s.revokedAt = NULL /\ s.expiresAt > t

----------------------------------------------------------------------------
(* Responses: AppError(message, statusCode, code) as errorHandler sends it *)

\* resp.email is the email a register or login was called with (for me: the
\* email returned), resp.tok the refresh token a refresh or logout was called
\* with (for me: the bearer token); resp.rep marks a logout that directly
\* follows a logout of the same token.
Ok(op, email, tok, status) ==
    [op |-> op, email |-> email, tok |-> tok, status |-> status, code |-> "OK",
     message |-> "", rep |-> FALSE]

Err(op, email, tok, status, code, message) ==
    [op |-> op, email |-> email, tok |-> tok, status |-> status, code |-> code,
     message |-> message, rep |-> FALSE]

IdleReq == [pc |-> "idle", tok |-> NoToken, sid |-> 0, t |-> 0]

IdleReg == [pc |-> "idle", email |-> "", password |-> "", role |-> "", uid |-> 0, t |-> 0]

\* A jar without the refreshToken cookie
EmptyJar == [value |-> NoToken, path |-> <<>>]

\* A free slot for a clinic call; the locals of a call in flight: appointment
\* a, patient p, doctor d, score, status, and the ratings read by findMany
IdleCall == [pc |-> "idle", a |-> 0, p |-> 0, d |-> 0, score |-> 0, status |-> "",
             total |-> 0, n |-> 0]

\* A deployment without appointments
NoClinic ==
    /\ appts = <<>>
    /\ ratings = <<>>
    /\ doctors = <<>>
    /\ call = [c \in Reqs |-> IdleCall]

Payload(u) == [id |-> u, email |-> users[u].email, role |-> users[u].role]

\* prisma.user.findUnique({where: {email}}): the id, or 0
UserByEmail(email) ==
    IF \E u \in 1..Len(users) : users[u].email = email
    THEN CHOOSE u \in 1..Len(users) : users[u].email = email
    ELSE 0

\* Refresh tokens clients hold: every token ever returned
Held == {p[2] : p \in lineage}

\* The tokens issued in exchange for `token`
Children(token) == {p[2] : p \in {q \in lineage : q[1] = token}}

\* A refresh token signed with this deployment's secret whose rows the seed
\* script has since wiped (seed.ts deletes users and, by cascade, sessions).
Orphan ==
    JwtSign([id |-> 0, email |-> "gone@example.com", role |-> "PATIENT"],
            cfg.JWT_REFRESH_SECRET, cfg.JWT_REFRESH_EXPIRE, 0)

\* What a client can put in the refreshToken cookie
Presentable == Held \cup {Orphan, Garbage}

\* The store after seed.ts: a patient and a doctor, no sessions
SeedUsers ==
    << [email |-> "patient1@example.com", passwordHash |-> hashPassword("password123"),
        role |-> "PATIENT", isActive |-> TRUE],
       [email |-> "dr.smith@healthconsult.com", passwordHash |-> hashPassword("password123"),
        role |-> "DOCTOR", isActive |-> TRUE] >>

----------------------------------------------------------------------------
InitCommon ==
    /\ now = 0
    /\ cfg \in [JWT_SECRET : {"k_access"}, JWT_REFRESH_SECRET : {"k_refresh"},
                JWT_ACCESS_EXPIRE : {1}, JWT_REFRESH_EXPIRE : RefreshTtlValues]
    /\ sessions = <<>>
    /\ lineage = {}
    /\ killed = {}
    /\ req = [r \in Reqs |-> IdleReq]
    /\ resp = [op |-> "none", email |-> "", tok |-> NoToken, status |-> 0, code |-> "",
               message |-> "", rep |-> FALSE]
    /\ reg = [r \in Reqs |-> IdleReg]
    /\ refreshTokens = <<>>
    /\ jar = EmptyJar
    /\ NoClinic

\* A seeded deployment
Init == InitCommon /\ users = SeedUsers

\* A fresh deployment: empty tables
InitEmpty == InitCommon /\ users = <<>>

Tick ==
    \E d \in ClockJumps :
        /\ ClockSteps(now + d) <= MaxTicks
        /\ now' = now + d
        /\ UNCHANGED <<cfg, users, sessions, lineage, killed, req, resp>>

\* AuthService.register
Register(email, password, role) ==
    /\ UNCHANGED <<now, cfg, killed, req>>
    /\ IF UserByEmail(email) # 0
       THEN /\ resp' = Err("register", email, NoToken, 409, "USER_EXISTS",
                           "User with this email already exists")
            /\ UNCHANGED <<users, sessions, lineage>>
       ELSE /\ Len(users) < MaxUsers
            /\ Len(sessions) < MaxSessions
            /\ users' = Append(users, [email |-> email,
                                       passwordHash |-> hashPassword(password),
                                       role |-> role, isActive |-> TRUE])
            /\ LET id == Len(users) + 1
                   refreshToken == signRefreshToken(
                       [id |-> id, email |-> email, role |-> role], now)
               IN  IF HashTaken(hashToken(refreshToken))
                   THEN /\ resp' = Err("register", email, NoToken, 409, "DUPLICATE_ENTRY",
                                  "A record with this unique field already exists")
                        /\ UNCHANGED <<sessions, lineage>>
                   ELSE /\ sessions' = Append(sessions, NewSession(id, refreshToken, now))
                        /\ lineage' = lineage \cup {<<NoToken, refreshToken>>}
                        /\ resp' = Ok("register", email, NoToken, 201)

\* Faulty variant: an unknown email gets an answer of its own
LoginCheckUserNotFound(email, password) ==
    LET u == UserByEmail(email) IN
    IF u = 0
    THEN [status |-> 404, code |-> "USER_NOT_FOUND", message |-> "User not found"]
    ELSE IF ~users[u].isActive
    THEN [status |-> 403, code |-> "ACCOUNT_DEACTIVATED", message |-> "Account is deactivated"]
    ELSE IF ~comparePassword(password, users[u].passwordHash)
    THEN [status |-> 401, code |-> "INVALID_CREDENTIALS", message |-> "Invalid credentials"]
    ELSE [status |-> 200, code |-> "OK", message |-> ""]

\* AuthService.login up to the token issue: the error it throws, or "OK"
LoginCheck(email, password) ==
    LET u == UserByEmail(email) IN
    IF u = 0
    THEN [status |-> 401, code |-> "INVALID_CREDENTIALS", message |-> "Invalid credentials"]
    ELSE IF ~users[u].isActive
    THEN [status |-> 403, code |-> "ACCOUNT_DEACTIVATED", message |-> "Account is deactivated"]
    ELSE IF ~comparePassword(password, users[u].passwordHash)
    THEN [status |-> 401, code |-> "INVALID_CREDENTIALS", message |-> "Invalid credentials"]
    ELSE [status |-> 200, code |-> "OK", message |-> ""]

\* AuthService.login
Login(email, password) ==
    /\ UNCHANGED <<now, cfg, users, killed, req>>
    /\ LET c == LoginCheck(email, password)
           u == UserByEmail(email)
       IN
       IF c.code # "OK"
       THEN /\ resp' = Err("login", email, NoToken, c.status, c.code, c.message)
            /\ UNCHANGED <<sessions, lineage>>
       ELSE LET refreshToken == signRefreshToken(Payload(u), now) IN
            IF HashTaken(hashToken(refreshToken))
            THEN /\ resp' = Err("login", email, NoToken, 409, "DUPLICATE_ENTRY",
                                "A record with this unique field already exists")
                 /\ UNCHANGED <<sessions, lineage>>
            ELSE /\ Len(sessions) < MaxSessions
                 /\ sessions' = Append(sessions, NewSession(u, refreshToken, now))
                 /\ lineage' = lineage \cup {<<NoToken, refreshToken>>}
                 /\ resp' = Ok("login", email, NoToken, 200)

\* AdminService.deleteUser: soft delete by deactivating
DeleteUser(userId) ==
    /\ UNCHANGED <<now, cfg, sessions, lineage, killed, req>>
    /\ IF userId \notin 1..Len(users)
       THEN /\ resp' = Err("deleteUser", "", NoToken, 404, "USER_NOT_FOUND", "User not found")
            /\ UNCHANGED users
       ELSE /\ users' = [users EXCEPT ![userId].isActive = FALSE]
            /\ resp' = Ok("deleteUser", users[userId].email, NoToken, 200)

\* Faulty variant: the revocation check comes before the expiry check
RefreshCheckRevokedFirst(refreshToken, t) ==
    IF ~verifyRefreshToken(refreshToken, t)
    THEN [kind |-> "INVALID_REFRESH_TOKEN", sid |-> 0]
    ELSE LET sid == findUnique(hashToken(refreshToken)) IN
         IF sid = 0 THEN [kind |-> "INVALID_REFRESH_TOKEN", sid |-> 0]
         ELSE IF sessions[sid].revokedAt # NULL THEN [kind |-> "reuse", sid |-> sid]
         ELSE IF sessions[sid].expiresAt < t THEN [kind |-> "REFRESH_TOKEN_EXPIRED", sid |-> sid]
         ELSE [kind |-> "rotate", sid |-> sid]

\* Faulty variant: a replayed revoked token is answered without the reuse handler
RefreshCheckNoReuse(refreshToken, t) ==
    IF ~verifyRefreshToken(refreshToken, t)
    THEN [kind |-> "INVALID_REFRESH_TOKEN", sid |-> 0]
    ELSE LET sid == findUnique(hashToken(refreshToken)) IN
         IF sid = 0 THEN [kind |-> "INVALID_REFRESH_TOKEN", sid |-> 0]
         ELSE IF sessions[sid].expiresAt < t \/ sessions[sid].revokedAt # NULL
              THEN [kind |-> "REFRESH_TOKEN_EXPIRED", sid |-> sid]
         ELSE [kind |-> "rotate", sid |-> sid]

\* Faulty variant: refresh looks the user up and refuses a deactivated one
RefreshCheckActiveUser(refreshToken, t) ==
    IF ~verifyRefreshToken(refreshToken, t)
    THEN [kind |-> "INVALID_REFRESH_TOKEN", sid |-> 0]
    ELSE LET sid == findUnique(hashToken(refreshToken)) IN
         IF sid = 0 THEN [kind |-> "INVALID_REFRESH_TOKEN", sid |-> 0]
         ELSE IF sessions[sid].expiresAt < t THEN [kind |-> "REFRESH_TOKEN_EXPIRED", sid |-> sid]
         ELSE IF sessions[sid].revokedAt # NULL THEN [kind |-> "reuse", sid |-> sid]
         ELSE IF ~users[sessions[sid].userId].isActive
         THEN [kind |-> "ACCOUNT_DEACTIVATED", sid |-> sid]
         ELSE [kind |-> "rotate", sid |-> sid]

\* AuthService.refresh up to its first write: verify, look the session up,
\* check expiry, check revocation.  The outcome and the session id.
RefreshCheck(refreshToken, t) ==
    IF ~verifyRefreshToken(refreshToken, t)
    THEN [kind |-> "INVALID_REFRESH_TOKEN", sid |-> 0]
    ELSE LET sid == findUnique(hashToken(refreshToken)) IN
         IF sid = 0 THEN [kind |-> "INVALID_REFRESH_TOKEN", sid |-> 0]
         ELSE IF sessions[sid].expiresAt < t THEN [kind |-> "REFRESH_TOKEN_EXPIRED", sid |-> sid]
         ELSE IF sessions[sid].revokedAt # NULL THEN [kind |-> "reuse", sid |-> sid]
         ELSE [kind |-> "rotate", sid |-> sid]

\* A call takes the lowest free slot (the slots are interchangeable)
FreeSlot(r) == req[r].pc = "idle" /\ \A q \in Reqs : q < r => req[q].pc # "idle"

\* refresh, from the call to the await of its write.  The timestamps of the
\* write (new Date(), the new token's iat) are taken here, before the await.
RefreshStart(r, refreshToken) ==
    /\ FreeSlot(r)
    /\ UNCHANGED <<now, cfg, users, sessions, lineage, killed>>
    /\ LET c == RefreshCheck(refreshToken, now) IN
       CASE c.kind = "INVALID_REFRESH_TOKEN" ->
              /\ resp' = Err("refresh", "", refreshToken, 401, "INVALID_REFRESH_TOKEN",
                             IF verifyRefreshToken(refreshToken, now)
                             THEN "Refresh token not found" ELSE "Invalid refresh token")
              /\ UNCHANGED req
         [] c.kind = "REFRESH_TOKEN_EXPIRED" ->
              /\ resp' = Err("refresh", "", refreshToken, 401, "REFRESH_TOKEN_EXPIRED",
                             "Refresh token expired")
              /\ UNCHANGED req
         [] OTHER ->
              /\ req' = [req EXCEPT ![r] = [pc |-> c.kind, tok |-> refreshToken,
                                            sid |-> c.sid, t |-> now]]
              /\ UNCHANGED resp

\* refresh, reuse path: revokeAllUserSessions, then throw TOKEN_REUSE_DETECTED
RefreshRevokeAll(r) ==
    /\ req[r].pc = "reuse"
    /\ sessions' = revokeAllUserSessions(sessions, sessions[req[r].sid].userId, req[r].t)
    /\ killed' = killed \cup Children(req[r].tok)
    /\ resp' = Err("refresh", "", req[r].tok, 401, "TOKEN_REUSE_DETECTED",
                   "Token reuse detected - all sessions revoked for security")
    /\ req' = [req EXCEPT ![r] = IdleReq]
    /\ UNCHANGED <<now, cfg, users, lineage>>

\* refresh, rotation path: the transaction commits, or hits the unique index
\* on refreshTokenHash and rolls back (P2002)
RefreshCommit(r) ==
    /\ req[r].pc = "rotate"
    /\ LET tok == req[r].tok
           newRefreshToken == signRefreshToken(tok, req[r].t)
       IN  IF HashTaken(hashToken(newRefreshToken))
           THEN /\ resp' = Err("refresh", "", tok, 409, "DUPLICATE_ENTRY",
                               "A record with this unique field already exists")
                /\ UNCHANGED <<sessions, lineage>>
           ELSE /\ Len(sessions) < MaxSessions
                /\ sessions' = rotateTx(sessions, req[r].sid, newRefreshToken, req[r].t)
                /\ lineage' = lineage \cup {<<tok, newRefreshToken>>}
                /\ resp' = Ok("refresh", "", tok, 200)
    /\ req' = [req EXCEPT ![r] = IdleReq]
    /\ UNCHANGED <<now, cfg, users, killed>>

\* Faulty variant: two writes without a transaction, the second one fails
RefreshTxFailPartial(r) ==
    /\ req[r].pc = "rotate"
    /\ sessions' = [sessions EXCEPT ![req[r].sid].revokedAt = req[r].t]
    /\ resp' = Err("refresh", "", req[r].tok, 500, "INTERNAL_SERVER_ERROR",
                   "Internal server error")
    /\ req' = [req EXCEPT ![r] = IdleReq]
    /\ UNCHANGED <<now, cfg, users, lineage, killed>>

\* refresh, rotation path: the transaction fails in the store and rolls back
RefreshTxFail(r) ==
    /\ req[r].pc = "rotate"
    /\ resp' = Err("refresh", "", req[r].tok, 500, "INTERNAL_SERVER_ERROR",
                   "Internal server error")
    /\ req' = [req EXCEPT ![r] = IdleReq]
    /\ UNCHANGED <<now, cfg, users, sessions, lineage, killed>>

\* AuthService.logout
Logout(refreshToken) ==
    /\ sessions' = revokeByHash(sessions, hashToken(refreshToken), now)
    /\ resp' = [Ok("logout", "", refreshToken, 200) EXCEPT
                    !.rep = (resp.op = "logout" /\ resp.tok = refreshToken)]
    /\ UNCHANGED <<now, cfg, users, lineage, killed, req>>

----------------------------------------------------------------------------
(* AuthService.register, await by await *)

\* A call takes the lowest free slot (the slots are interchangeable)
FreeReg(r) == reg[r].pc = "idle" /\ \A q \in Reqs : q < r => reg[q].pc # "idle"

\* register, from the call to the await of prisma.user.create: the lookup by
\* email, USER_EXISTS if it finds a row
RegisterStart(r, email, password, role) ==
    /\ FreeReg(r)
    /\ UNCHANGED <<now, cfg, users, sessions, lineage, killed, req, refreshTokens, jar>>
    /\ IF UserByEmail(email) # 0
       THEN /\ resp' = Err("register", email, NoToken, 409, "USER_EXISTS",
                           "User with this email already exists")
            /\ UNCHANGED reg
       ELSE /\ reg' = [reg EXCEPT ![r] = [pc |-> "create", email |-> email,
                                          password |-> password, role |-> role,
                                          uid |-> 0, t |-> 0]]
            /\ UNCHANGED resp

\* register: prisma.user.create commits, or hits the unique index on
\* users.email (P2002); after it the tokens are signed and createSession
\* computes expiresAt, then awaits its insert
RegisterCreateUser(r) ==
    /\ reg[r].pc = "create"
    /\ UNCHANGED <<now, cfg, sessions, lineage, killed, req, refreshTokens, jar>>
    /\ IF UserByEmail(reg[r].email) # 0
       THEN /\ resp' = Err("register", reg[r].email, NoToken, 409, "DUPLICATE_ENTRY",
                           "A record with this unique field already exists")
            /\ reg' = [reg EXCEPT ![r] = IdleReg]
            /\ UNCHANGED users
       ELSE /\ Len(users) < MaxUsers
            /\ users' = Append(users, [email |-> reg[r].email,
                                       passwordHash |-> hashPassword(reg[r].password),
                                       role |-> reg[r].role, isActive |-> TRUE])
            /\ reg' = [reg EXCEPT ![r].pc = "session", ![r].uid = Len(users) + 1,
                                  ![r].t = now]
            /\ UNCHANGED resp

\* register: prisma.user.create fails in the store
RegisterCreateUserFail(r) ==
    /\ reg[r].pc = "create"
    /\ resp' = Err("register", reg[r].email, NoToken, 500, "INTERNAL_SERVER_ERROR",
                   "Internal server error")
    /\ reg' = [reg EXCEPT ![r] = IdleReg]
    /\ UNCHANGED <<now, cfg, users, sessions, lineage, killed, req, refreshTokens, jar>>

\* register: createSession's insert commits and the call returns 201
RegisterCreateSession(r) ==
    /\ reg[r].pc = "session"
    /\ Len(sessions) < MaxSessions
    /\ LET refreshToken == signRefreshToken(
               [id |-> reg[r].uid, email |-> reg[r].email, role |-> reg[r].role], reg[r].t)
       IN  /\ sessions' = Append(sessions, NewSession(reg[r].uid, refreshToken, reg[r].t))
           /\ lineage' = lineage \cup {<<NoToken, refreshToken>>}
    /\ resp' = Ok("register", reg[r].email, NoToken, 201)
    /\ reg' = [reg EXCEPT ![r] = IdleReg]
    /\ UNCHANGED <<now, cfg, users, killed, req, refreshTokens, jar>>

\* register: createSession's insert fails in the store; the user row, written
\* by an earlier statement outside any transaction, stays
RegisterCreateSessionFail(r) ==
    /\ reg[r].pc = "session"
    /\ resp' = Err("register", reg[r].email, NoToken, 500, "INTERNAL_SERVER_ERROR",
                   "Internal server error")
    /\ reg' = [reg EXCEPT ![r] = IdleReg]
    /\ UNCHANGED <<now, cfg, users, sessions, lineage, killed, req, refreshTokens, jar>>

----------------------------------------------------------------------------
(* GET /me: authenticate, then AuthService.getMe *)

\* The access token issued together with refresh token R: same payload,
\* signed in the same instant
AccessOf(R) == signAccessToken(R, R.iat)

\* Access tokens clients hold
AccessIssued == {AccessOf(R) : R \in Held}

\* Faulty variant: me refuses a deactivated user
GetMeChecksActive(token) ==
    /\ UNCHANGED <<now, cfg, users, sessions, lineage, killed, req>>
    /\ resp' =
         IF token = NoToken
         THEN Err("me", "", token, 401, "UNAUTHORIZED", "No token provided")
         ELSE IF ~verifyAccessToken(token, now)
         THEN Err("me", "", token, 401, "UNAUTHORIZED", "Invalid or expired token")
         ELSE IF token.id \notin 1..Len(users)
         THEN Err("me", "", token, 404, "USER_NOT_FOUND", "User not found")
         ELSE IF ~users[token.id].isActive
         THEN Err("me", "", token, 403, "ACCOUNT_DEACTIVATED", "Account is deactivated")
         ELSE Ok("me", users[token.id].email, token, 200)

\* authenticate (Authorization: Bearer token, verifyAccessToken), then
\* AuthController.me and AuthService.getMe(req.user.id)
GetMe(token) ==
    /\ UNCHANGED <<now, cfg, users, sessions, lineage, killed, req>>
    /\ resp' =
         IF token = NoToken
         THEN Err("me", "", token, 401, "UNAUTHORIZED", "No token provided")
         ELSE IF ~verifyAccessToken(token, now)
         THEN Err("me", "", token, 401, "UNAUTHORIZED", "Invalid or expired token")
         ELSE IF token.id \notin 1..Len(users)
         THEN Err("me", "", token, 404, "USER_NOT_FOUND", "User not found")
         ELSE Ok("me", users[token.id].email, token, 200)

----------------------------------------------------------------------------
(* The AuthService and AuthController of the first schema: table            *)
(* refresh_tokens, the token in the response body.  Each call is taken as   *)
(* one step.                                                                *)

\* the row login and refresh insert into refresh_tokens
NewTokenRow(userId, refreshToken, t) ==
    [userId |-> userId, token |-> refreshToken, expiresAt |-> t + SESSION_DAYS,
     revoked |-> FALSE]

\* UNIQUE INDEX refresh_tokens_token_key
TokenTaken(token) == \E i \in 1..Len(refreshTokens) : refreshTokens[i].token = token

\* prisma.refreshToken.findFirst({where: {token, revoked: false, expiresAt: {gt: now}}}):
\* the row's index, or 0
findFirst(token, t) ==
    LET hit(i) == /\ refreshTokens[i].token = token
                  /\ ~refreshTokens[i].revoked
                  /\ refreshTokens[i].expiresAt > t
    IN  IF \E i \in 1..Len(refreshTokens) : hit(i)
        THEN CHOOSE i \in 1..Len(refreshTokens) : hit(i)
        ELSE 0

\* AuthService.login of the first schema
LegacyLogin(email, password) ==
    /\ UNCHANGED <<now, cfg, users, sessions, killed, req, reg, jar>>
    /\ LET c == LoginCheck(email, password)
           u == UserByEmail(email)
       IN
       IF c.code # "OK"
       THEN /\ resp' = Err("login", email, NoToken, c.status, c.code, c.message)
            /\ UNCHANGED <<refreshTokens, lineage>>
       ELSE LET refreshToken == signRefreshToken(Payload(u), now) IN
            IF TokenTaken(refreshToken)
            THEN /\ resp' = Err("login", email, NoToken, 409, "DUPLICATE_ENTRY",
                                "A record with this unique field already exists")
                 /\ UNCHANGED <<refreshTokens, lineage>>
            ELSE /\ Len(refreshTokens) < MaxSessions
                 /\ refreshTokens' = Append(refreshTokens, NewTokenRow(u, refreshToken, now))
                 /\ lineage' = lineage \cup {<<NoToken, refreshToken>>}
                 /\ resp' = Ok("login", email, NoToken, 200)

\* AuthService.refresh of the first schema
LegacyRefresh(refreshToken) ==
    /\ UNCHANGED <<now, cfg, users, sessions, killed, req, reg, jar>>
    /\ IF ~verifyRefreshToken(refreshToken, now)
       THEN /\ resp' = Err("refresh", "", refreshToken, 401, "INVALID_REFRESH_TOKEN",
                           "Invalid refresh token")
            /\ UNCHANGED <<refreshTokens, lineage>>
       ELSE LET id == findFirst(refreshToken, now)
                newRefreshToken == signRefreshToken(refreshToken, now)
            IN
            IF id = 0
            THEN /\ resp' = Err("refresh", "", refreshToken, 401, "INVALID_REFRESH_TOKEN",
                                "Refresh token not found or expired")
                 /\ UNCHANGED <<refreshTokens, lineage>>
            ELSE IF TokenTaken(newRefreshToken)
            THEN /\ resp' = Err("refresh", "", refreshToken, 409, "DUPLICATE_ENTRY",
                                "A record with this unique field already exists")
                 /\ UNCHANGED <<refreshTokens, lineage>>
            ELSE /\ Len(refreshTokens) < MaxSessions
                 /\ refreshTokens' = Append([refreshTokens EXCEPT ![id].revoked = TRUE],
                                            NewTokenRow(refreshToken.id, newRefreshToken, now))
                 /\ lineage' = lineage \cup {<<refreshToken, newRefreshToken>>}
                 /\ resp' = Ok("refresh", "", refreshToken, 200)

\* AuthService.logout of the first schema
LegacyLogout(refreshToken) ==
    /\ refreshTokens' =
          [i \in 1..Len(refreshTokens) |->
              IF refreshTokens[i].token = refreshToken /\ ~refreshTokens[i].revoked
              THEN [refreshTokens[i] EXCEPT !.revoked = TRUE]
              ELSE refreshTokens[i]]
    /\ resp' = Ok("logout", "", refreshToken, 200)
    /\ UNCHANGED <<now, cfg, users, sessions, lineage, killed, req, reg, jar>>

\* the answer of a controller to a request without a refresh token
TokenMissing(op) ==
    /\ resp' = Err(op, "", NoToken, 401, "REFRESH_TOKEN_MISSING", "Refresh token is required")
    /\ UNCHANGED <<now, cfg, users, sessions, lineage, killed, req, reg, refreshTokens, jar>>

\* AuthController.refresh of the first schema:
\* req.body.refreshToken || req.cookies?.refreshToken
LegacyRefreshRequest(cookie, body) ==
    LET refreshToken == IF body # NoToken THEN body ELSE cookie IN
    IF refreshToken = NoToken THEN TokenMissing("refresh") ELSE LegacyRefresh(refreshToken)

\* AuthController.logout of the first schema
LegacyLogoutRequest(cookie, body) ==
    LET refreshToken == IF body # NoToken THEN body ELSE cookie IN
    IF refreshToken = NoToken THEN TokenMissing("logout") ELSE LegacyLogout(refreshToken)

----------------------------------------------------------------------------
(* AuthController over the user_sessions service, and a browser that keeps  *)
(* the refreshToken cookie and returns it by path.                          *)

\* path: '/api/auth/refresh' of res.cookie and res.clearCookie
COOKIE_PATH == <<"api", "auth", "refresh">>

\* app.use('/api', routes), router.use('/auth', authRoutes), router.post(...)
REFRESH_ROUTE == <<"api", "auth", "refresh">>
LOGOUT_ROUTE == <<"api", "auth", "logout">>

\* A cookie goes with a request when the cookie's path is the request's path
\* or a directory above it
PathMatch(cookiePath, requestPath) ==
    /\ Len(cookiePath) <= Len(requestPath)
    /\ \A i \in 1..Len(cookiePath) : cookiePath[i] = requestPath[i]

\* req.cookies.refreshToken of a request of the browser to requestPath
CookieSent(requestPath) ==
    IF jar.value # NoToken /\ PathMatch(jar.path, requestPath) THEN jar.value ELSE NoToken

\* res.cookie('refreshToken', result.refreshToken, {path}) when the service
\* returned a token
SetCookie ==
    jar' = IF lineage' # lineage
           THEN [value |-> (CHOOSE p \in lineage' \ lineage : TRUE)[2], path |-> COOKIE_PATH]
           ELSE jar

\* AuthController.login
LoginRequest(email, password) ==
    /\ Login(email, password)
    /\ SetCookie
    /\ UNCHANGED <<reg, refreshTokens>>

\* AuthController.refresh up to the service's first write: the token is the
\* cookie's, req.body is not read
RefreshRequest(r, cookie, body) ==
    IF cookie = NoToken
    THEN TokenMissing("refresh")
    ELSE RefreshStart(r, cookie) /\ UNCHANGED ext

\* AuthController.refresh, the service returned or threw
RefreshResponse(r) ==
    /\ RefreshRevokeAll(r) \/ RefreshCommit(r) \/ RefreshTxFail(r)
    /\ SetCookie
    /\ UNCHANGED <<reg, refreshTokens>>

\* AuthController.logout: the token is the cookie's; clearCookie on success
LogoutRequest(cookie, body) ==
    IF cookie = NoToken
    THEN TokenMissing("logout")
    ELSE /\ Logout(cookie)
         /\ jar' = EmptyJar
         /\ UNCHANGED <<reg, refreshTokens>>

\* The browser's requests
BrowserRefresh(r) == RefreshRequest(r, CookieSent(REFRESH_ROUTE), NoToken)
BrowserLogout == LogoutRequest(CookieSent(LOGOUT_ROUTE), NoToken)

----------------------------------------------------------------------------
(* AdminService: the other writes of users.isActive *)

\* AdminService.updateUser with input {isActive}
UpdateUser(userId, isActive) ==
    /\ UNCHANGED <<now, cfg, sessions, lineage, killed, req>>
    /\ IF userId \notin 1..Len(users)
       THEN /\ resp' = Err("updateUser", "", NoToken, 404, "USER_NOT_FOUND", "User not found")
            /\ UNCHANGED users
       ELSE /\ users' = [users EXCEPT ![userId].isActive = isActive]
            /\ resp' = Ok("updateUser", users[userId].email, NoToken, 200)

\* AdminService.deleteDoctor
DeleteDoctor(doctorId) ==
    /\ UNCHANGED <<now, cfg, sessions, lineage, killed, req>>
    /\ IF doctorId \notin 1..Len(users) \/ users[doctorId].role # "DOCTOR"
       THEN /\ resp' = Err("deleteDoctor", "", NoToken, 404, "DOCTOR_NOT_FOUND",
                           "Doctor not found")
            /\ UNCHANGED users
       ELSE /\ users' = [users EXCEPT ![doctorId].isActive = FALSE]
            /\ resp' = Ok("deleteDoctor", users[doctorId].email, NoToken, 200)

----------------------------------------------------------------------------
(* POST /auth/register: validate({body: registerSchema.shape.body}), then   *)
(* AuthController.register.  A body is taken with a name in it.             *)

\* z.string().email(): of the strings the requests carry, the ones with the
\* shape of an address
IsEmail(s) == s \in Emails

\* Faulty variant: the enum of role lists ADMIN too
registerSchemaWithAdmin(body) ==
    {d \in {[path |-> "email", message |-> "Invalid email format"],
            [path |-> "password", message |-> "Password must be at least 6 characters"],
            [path |-> "role", message |-> "Role must be either PATIENT or DOCTOR"]} :
        \/ d.path = "email" /\ ~IsEmail(body.email)
        \/ d.path = "password" /\ Len(body.password) < 6
        \/ d.path = "role" /\ body.role \notin {"PATIENT", "DOCTOR", "ADMIN"}}

\* registerSchema.shape.body.parseAsync(req.body): the details of the
\* ZodError, none when the body parses
registerSchema(body) ==
    {d \in {[path |-> "email", message |-> "Invalid email format"],
            [path |-> "password", message |-> "Password must be at least 6 characters"],
            [path |-> "role", message |-> "Role must be either PATIENT or DOCTOR"]} :
        \/ d.path = "email" /\ ~IsEmail(body.email)
        \/ d.path = "password" /\ Len(body.password) < 6
        \/ d.path = "role" /\ body.role \notin {"PATIENT", "DOCTOR"}}

\* validate: sendError(res, 'Validation failed', 400, VALIDATION_ERROR, details)
\* without next(), or next() into the controller and the service
RegisterRequest(r, body) ==
    IF registerSchema(body) # {}
    THEN /\ resp' = [op |-> "register", email |-> body.email, tok |-> NoToken,
                     status |-> 400, code |-> "VALIDATION_ERROR",
                     message |-> "Validation failed", rep |-> FALSE,
                     details |-> registerSchema(body)]
         /\ UNCHANGED <<now, cfg, users, sessions, lineage, killed, req, reg,
                        refreshTokens, jar>>
    ELSE RegisterStart(r, body.email, body.password, body.role)

----------------------------------------------------------------------------
(* The patient, doctor and admin routers: router.use(authenticate,          *)
(* requireX) before their handlers.                                         *)

Routers == {"patient", "doctor", "admin"}

\* requirePatient, requireDoctor, requireAdmin
AllowedRoles(router) ==
    CASE router = "patient" -> {"PATIENT"}
      [] router = "doctor" -> {"DOCTOR"}
      [] router = "admin" -> {"ADMIN"}

\* authenticate: the status it answers with, 0 for next(); req.user is then
\* the token's payload
authenticate(bearer, t) ==
    IF bearer = NoToken THEN 401
    ELSE IF ~verifyAccessToken(bearer, t) THEN 401
    ELSE 0

\* Faulty variant: any authenticated user passes
requireRoleAuthenticated(allowedRoles, user) ==
    IF user = NoToken THEN 401 ELSE 0

\* requireRole(allowedRoles): the status it answers with, 0 for next()
requireRole(allowedRoles, user) ==
    IF user = NoToken THEN 401
    ELSE IF user.role \notin allowedRoles THEN 403
    ELSE 0

\* A request to a handler of a gated router with this Authorization header;
\* answer OK stands for the handler having run
GatedRequest(router, bearer) ==
    /\ resp' =
          IF authenticate(bearer, now) # 0
          THEN Err(router, "", bearer, 401, "UNAUTHORIZED",
                   IF bearer = NoToken THEN "No token provided"
                   ELSE "Invalid or expired token")
          ELSE IF requireRole(AllowedRoles(router), bearer) = 401
          THEN Err(router, "", bearer, 401, "UNAUTHORIZED", "Authentication required")
          ELSE IF requireRole(AllowedRoles(router), bearer) = 403
          THEN Err(router, "", bearer, 403, "FORBIDDEN",
                   "You do not have permission to access this resource")
          ELSE Ok(router, bearer.email, bearer, 200)
    /\ UNCHANGED <<now, cfg, users, sessions, lineage, killed, req, reg, refreshTokens, jar>>

----------------------------------------------------------------------------
(* Appointments: DoctorService.updateAppointment, await by await, and       *)
(* AdminService.updateAppointment.                                          *)

APPOINTMENT_STATUS == {"PENDING", "CONFIRMED", "CANCELLED", "COMPLETED"}

\* APPOINTMENT_TRANSITIONS[from]
APPOINTMENT_TRANSITIONS(from) ==
    CASE from = "PENDING" -> {"CONFIRMED", "CANCELLED"}
      [] from = "CONFIRMED" -> {"COMPLETED", "CANCELLED"}
      [] from = "CANCELLED" -> {}
      [] from = "COMPLETED" -> {}
      [] OTHER -> {}

isValidAppointmentTransition(from, to) == to \in APPOINTMENT_TRANSITIONS(from)

\* A clinic call takes the lowest free slot (the slots are interchangeable)
FreeCall(c) == call[c].pc = "idle" /\ \A q \in Reqs : q < c => call[q].pc # "idle"

\* DoctorService.updateAppointment of doctor d up to the await of
\* appointment.update: findFirst {id, doctorId}, then the transition check on
\* the row it read
DoctorUpdateStart(c, d, appointmentId, status) ==
    /\ FreeCall(c)
    /\ UNCHANGED <<now, cfg, users, sessions, lineage, killed, req, reg, refreshTokens, jar,
                   appts, ratings, doctors>>
    /\ IF appointmentId \notin 1..Len(appts) \/ appts[appointmentId].doctorId # d
       THEN /\ resp' = Err("doctor.updateAppointment", "", NoToken, 404,
                           "APPOINTMENT_NOT_FOUND", "Appointment not found")
            /\ UNCHANGED call
       ELSE IF /\ status # appts[appointmentId].status
               /\ ~isValidAppointmentTransition(appts[appointmentId].status, status)
       THEN /\ resp' = Err("doctor.updateAppointment", "", NoToken, 400,
                           "INVALID_STATUS_TRANSITION", "Cannot transition appointment")
            /\ UNCHANGED call
       ELSE /\ call' = [call EXCEPT ![c] = [IdleCall EXCEPT !.pc = "updateAppointment",
                                             !.a = appointmentId, !.d = d,
                                             !.status = status]]
            /\ UNCHANGED resp

\* DoctorService.updateAppointment: appointment.update {where id} data {status}
DoctorUpdateCommit(c) ==
    /\ call[c].pc = "updateAppointment"
    /\ appts' = [appts EXCEPT ![call[c].a].status = call[c].status]
    /\ resp' = Ok("doctor.updateAppointment", "", NoToken, 200)
    /\ call' = [call EXCEPT ![c] = IdleCall]
    /\ UNCHANGED <<now, cfg, users, sessions, lineage, killed, req, reg, refreshTokens, jar,
                   ratings, doctors>>

\* AdminService.updateAppointment: findUnique, then update data {status}
AdminUpdateAppointment(appointmentId, status) ==
    /\ UNCHANGED <<now, cfg, users, sessions, lineage, killed, req, reg, refreshTokens, jar,
                   ratings, doctors, call>>
    /\ IF appointmentId \notin 1..Len(appts)
       THEN /\ resp' = Err("admin.updateAppointment", "", NoToken, 404,
                           "APPOINTMENT_NOT_FOUND", "Appointment not found")
            /\ UNCHANGED appts
       ELSE /\ appts' = [appts EXCEPT ![appointmentId].status = status]
            /\ resp' = Ok("admin.updateAppointment", "", NoToken, 200)

----------------------------------------------------------------------------
(* Ratings: PatientService.createRating and AdminService.moderateRating,    *)
(* await by await.  ratingAverage is kept as the pair <<total, n>> of the   *)
(* quotient the code computes; <<0, 0>> is 0 / 0.                           *)

\* UNIQUE INDEX ratings_appointmentId_patientId_key
RatingTaken(appointmentId, patientId) ==
    \E i \in 1..Len(ratings) :
        ratings[i].appointmentId = appointmentId /\ ratings[i].patientId = patientId

\* prisma.rating.findMany({where: {doctorId, status: 'VISIBLE'}}): the ids
VisibleOf(doctorId) ==
    {i \in 1..Len(ratings) : ratings[i].doctorId = doctorId /\ ratings[i].status = "VISIBLE"}

\* doctorRatings.reduce((sum, r) => sum + r.score, 0)
RECURSIVE TotalScore(_)
TotalScore(ids) ==
    IF ids = {} THEN 0
    ELSE LET i == CHOOSE j \in ids : TRUE IN ratings[i].score + TotalScore(ids \ {i})

\* createRating of patient p up to the await of rating.findFirst: the
\* appointment is looked up by id and patientId, then its status is checked
CreateRatingStart(c, p, appointmentId, doctorId, score) ==
    /\ FreeCall(c)
    /\ UNCHANGED <<now, cfg, users, sessions, lineage, killed, req, reg, refreshTokens, jar,
                   appts, ratings, doctors>>
    /\ IF appointmentId \notin 1..Len(appts) \/ appts[appointmentId].patientId # p
       THEN /\ resp' = Err("createRating", "", NoToken, 404, "APPOINTMENT_NOT_FOUND",
                           "Appointment not found")
            /\ UNCHANGED call
       ELSE IF appts[appointmentId].status # "COMPLETED"
       THEN /\ resp' = Err("createRating", "", NoToken, 400, "APPOINTMENT_NOT_COMPLETED",
                           "Can only rate completed appointments")
            /\ UNCHANGED call
       ELSE /\ call' = [call EXCEPT ![c] = [IdleCall EXCEPT !.pc = "findRating",
                                             !.a = appointmentId, !.p = p,
                                             !.d = doctorId, !.score = score]]
            /\ UNCHANGED resp

\* createRating: rating.findFirst {appointmentId, patientId} has returned;
\* RATING_EXISTS, then the score check, up to the await of rating.create
CreateRatingCheck(c) ==
    /\ call[c].pc = "findRating"
    /\ UNCHANGED <<now, cfg, users, sessions, lineage, killed, req, reg, refreshTokens, jar,
                   appts, ratings, doctors>>
    /\ IF RatingTaken(call[c].a, call[c].p)
       THEN /\ resp' = Err("createRating", "", NoToken, 409, "RATING_EXISTS",
                           "Rating already exists for this appointment")
            /\ call' = [call EXCEPT ![c] = IdleCall]
       ELSE IF call[c].score < 1 \/ call[c].score > 5
       THEN /\ resp' = Err("createRating", "", NoToken, 400, "INVALID_SCORE",
                           "Score must be between 1 and 5")
            /\ call' = [call EXCEPT ![c] = IdleCall]
       ELSE /\ call' = [call EXCEPT ![c].pc = "create"]
            /\ UNCHANGED resp

\* Faulty variant: the table has no unique index on (appointmentId, patientId)
CreateRatingCreateNoIndex(c) ==
    /\ call[c].pc = "create"
    /\ UNCHANGED <<now, cfg, users, sessions, lineage, killed, req, reg, refreshTokens, jar,
                   appts, doctors>>
    /\ Len(ratings) <= 2
    /\ ratings' = Append(ratings, [patientId |-> call[c].p, doctorId |-> call[c].d,
                                   appointmentId |-> call[c].a,
                                   score |-> call[c].score, status |-> "VISIBLE"])
    /\ call' = [call EXCEPT ![c] = [IdleCall EXCEPT !.pc = "findMany", !.d = call[c].d]]
    /\ UNCHANGED resp

\* createRating: rating.create, or P2002 on the unique index; of the locals
\* only doctorId is read afterwards
CreateRatingCreate(c) ==
    /\ call[c].pc = "create"
    /\ UNCHANGED <<now, cfg, users, sessions, lineage, killed, req, reg, refreshTokens, jar,
                   appts, doctors>>
    /\ IF RatingTaken(call[c].a, call[c].p)
       THEN /\ resp' = Err("createRating", "", NoToken, 409, "DUPLICATE_ENTRY",
                           "A record with this unique field already exists")
            /\ call' = [call EXCEPT ![c] = IdleCall]
            /\ UNCHANGED ratings
       ELSE /\ ratings' = Append(ratings, [patientId |-> call[c].p, doctorId |-> call[c].d,
                                           appointmentId |-> call[c].a,
                                           score |-> call[c].score, status |-> "VISIBLE"])
            /\ call' = [call EXCEPT ![c] = [IdleCall EXCEPT !.pc = "findMany",
                                             !.d = call[c].d]]
            /\ UNCHANGED resp

\* createRating and moderateRating: rating.findMany of the doctor's VISIBLE
\* ratings has returned; totalScore and length are computed
RatingFindMany(c) ==
    /\ call[c].pc \in {"findMany", "modFindMany"}
    /\ call' = [call EXCEPT ![c].pc = IF call[c].pc = "findMany" THEN "update" ELSE "modUpdate",
                            ![c].total = TotalScore(VisibleOf(call[c].d)),
                            ![c].n = Cardinality(VisibleOf(call[c].d))]
    /\ UNCHANGED <<now, cfg, users, sessions, lineage, killed, req, resp, reg, refreshTokens,
                   jar, appts, ratings, doctors>>

\* createRating: doctorProfile.update with totalScore / length and length;
\* with no rating read the quotient is 0 / 0, which the store takes or refuses
CreateRatingUpdateDoctor(c) ==
    /\ call[c].pc = "update"
    /\ call' = [call EXCEPT ![c] = IdleCall]
    /\ UNCHANGED <<now, cfg, users, sessions, lineage, killed, req, reg, refreshTokens, jar,
                   appts, ratings>>
    /\ \/ /\ doctors' = [doctors EXCEPT ![call[c].d] =
                            [ratingAverage |-> <<call[c].total, call[c].n>>,
                             ratingCount |-> call[c].n]]
          /\ resp' = Ok("createRating", "", NoToken, 201)
       \/ /\ call[c].n = 0
          /\ resp' = Err("createRating", "", NoToken, 500, "INTERNAL_SERVER_ERROR",
                         "Internal server error")
          /\ UNCHANGED doctors

\* moderateRating up to the await of rating.update: findUnique
ModerateRatingStart(c, ratingId, status) ==
    /\ FreeCall(c)
    /\ UNCHANGED <<now, cfg, users, sessions, lineage, killed, req, reg, refreshTokens, jar,
                   appts, ratings, doctors>>
    /\ IF ratingId \notin 1..Len(ratings)
       THEN /\ resp' = Err("moderateRating", "", NoToken, 404, "RATING_NOT_FOUND",
                           "Rating not found")
            /\ UNCHANGED call
       ELSE /\ call' = [call EXCEPT ![c] = [IdleCall EXCEPT !.pc = "modRating", !.a = ratingId,
                                             !.d = ratings[ratingId].doctorId,
                                             !.status = status]]
            /\ UNCHANGED resp

\* moderateRating: rating.update {where id} data {status}
ModerateRatingUpdate(c) ==
    /\ call[c].pc = "modRating"
    /\ ratings' = [ratings EXCEPT ![call[c].a].status = call[c].status]
    /\ call' = [call EXCEPT ![c].pc = "modFindMany"]
    /\ UNCHANGED <<now, cfg, users, sessions, lineage, killed, req, resp, reg, refreshTokens,
                   jar, appts, doctors>>

\* moderateRating: doctorProfile.update, 0 and 0 when no rating is visible
ModerateRatingUpdateDoctor(c) ==
    /\ call[c].pc = "modUpdate"
    /\ doctors' = [doctors EXCEPT ![call[c].d] =
                      IF call[c].n > 0
                      THEN [ratingAverage |-> <<call[c].total, call[c].n>>,
                            ratingCount |-> call[c].n]
                      ELSE [ratingAverage |-> <<0, 1>>, ratingCount |-> 0]]
    /\ resp' = Ok("moderateRating", "", NoToken, 200)
    /\ call' = [call EXCEPT ![c] = IdleCall]
    /\ UNCHANGED <<now, cfg, users, sessions, lineage, killed, req, reg, refreshTokens, jar,
                   appts, ratings>>

----------------------------------------------------------------------------
(* Specifications *)

\* The seeded users' own credentials
Credentials == {<<"patient1@example.com", "password123">>,
                <<"dr.smith@healthconsult.com", "password123">>}

\* Sessions of both users; one refresh call in flight at a time, interleaved
\* with logins and logouts.
Next ==
    \/ Tick /\ UNCHANGED ext
    \/ \E c \in Credentials : Login(c[1], c[2]) /\ UNCHANGED ext
    \/ \E tok \in Presentable : RefreshStart(1, tok) /\ UNCHANGED ext
    \/ \E r \in Reqs : RefreshRevokeAll(r) /\ UNCHANGED ext
    \/ \E r \in Reqs : RefreshCommit(r) /\ UNCHANGED ext
    \/ \E r \in Reqs : RefreshTxFail(r) /\ UNCHANGED ext
    \/ \E tok \in Held \cup {Garbage} : Logout(tok) /\ UNCHANGED ext

Spec == Init /\ [][Next]_vars

\* Sessions of one user; two refresh calls in flight.
NextRace ==
    \/ Tick /\ UNCHANGED ext
    \/ Login("patient1@example.com", "password123") /\ UNCHANGED ext
    \/ \E r \in Reqs, tok \in Presentable : RefreshStart(r, tok) /\ UNCHANGED ext
    \/ \E r \in Reqs : RefreshRevokeAll(r) /\ UNCHANGED ext
    \/ \E r \in Reqs : RefreshCommit(r) /\ UNCHANGED ext
    \/ \E r \in Reqs : RefreshTxFail(r) /\ UNCHANGED ext
    \/ \E tok \in Held : Logout(tok) /\ UNCHANGED ext

SpecRace == Init /\ [][NextRace]_vars

\* Accounts on a fresh deployment: registration, login with any credentials,
\* deactivation by an admin.
NextAccounts ==
    \/ Tick /\ UNCHANGED ext
    \/ \E e \in Emails, p \in {"password123"}, ro \in {"PATIENT", "DOCTOR"} :
          Register(e, p, ro) /\ UNCHANGED ext
    \/ \E e \in Emails, p \in Passwords : Login(e, p) /\ UNCHANGED ext
    \/ \E u \in 1..MaxUsers : DeleteUser(u) /\ UNCHANGED ext

SpecAccounts == InitEmpty /\ [][NextAccounts]_vars

\* Registration on a fresh deployment within one clock instant, two calls in
\* flight, and logins.
NextRegister ==
    \/ \E r \in Reqs, e \in Emails, ro \in {"PATIENT", "DOCTOR"} :
          RegisterStart(r, e, "password123", ro) /\ UNCHANGED clinic
    \/ \E r \in Reqs : RegisterCreateUser(r) /\ UNCHANGED clinic
    \/ \E r \in Reqs : RegisterCreateUserFail(r) /\ UNCHANGED clinic
    \/ \E r \in Reqs : RegisterCreateSession(r) /\ UNCHANGED clinic
    \/ \E r \in Reqs : RegisterCreateSessionFail(r) /\ UNCHANGED clinic
    \/ \E e \in Emails : Login(e, "password123") /\ UNCHANGED ext

SpecRegister == InitEmpty /\ [][NextRegister]_vars

\* A seeded deployment under any accepted configuration of the two secrets
\* (envSchema asks of each only that it is not empty) and of the access TTL
InitAccess ==
    /\ now = 0
    /\ cfg \in [JWT_SECRET : {"k_access"}, JWT_REFRESH_SECRET : {"k_access", "k_refresh"},
                JWT_ACCESS_EXPIRE : {1, SESSION_DAYS}, JWT_REFRESH_EXPIRE : {SESSION_DAYS}]
    /\ users = SeedUsers
    /\ sessions = <<>>
    /\ lineage = {}
    /\ killed = {}
    /\ req = [r \in Reqs |-> IdleReq]
    /\ resp = [op |-> "none", email |-> "", tok |-> NoToken, status |-> 0, code |-> "",
               message |-> "", rep |-> FALSE]
    /\ reg = [r \in Reqs |-> IdleReg]
    /\ refreshTokens = <<>>
    /\ jar = EmptyJar
    /\ NoClinic

\* Bearer tokens a client can send: any token it was given, none, or junk
Bearers == AccessIssued \cup Held \cup {NoToken, Garbage, AccessOf(Orphan)}

\* Access-token use: logins, deactivation by an admin, GET /me with any
\* token, and refresh with any token a client was given.
NextAccess ==
    \/ Tick /\ UNCHANGED ext
    \/ \E c \in Credentials : Login(c[1], c[2]) /\ UNCHANGED ext
    \/ \E u \in 1..MaxUsers : DeleteUser(u) /\ UNCHANGED ext
    \/ \E tok \in Bearers : GetMe(tok) /\ UNCHANGED ext
    \/ \E tok \in AccessIssued \cup Held : RefreshStart(1, tok) /\ UNCHANGED ext
    \/ \E r \in Reqs : RefreshRevokeAll(r) /\ UNCHANGED ext
    \/ \E r \in Reqs : RefreshCommit(r) /\ UNCHANGED ext

SpecAccess == InitAccess /\ [][NextAccess]_vars

\* What a request can carry as cookie or as body field: a token the client
\* was given, or nothing
Carried == Held \cup {NoToken}

\* The service and controller of the first schema on a seeded deployment.
NextLegacy ==
    \/ Tick /\ UNCHANGED ext
    \/ \E c \in Credentials : LegacyLogin(c[1], c[2]) /\ UNCHANGED clinic
    \/ \E cookie \in Carried, body \in Carried : LegacyRefreshRequest(cookie, body) /\ UNCHANGED clinic
    \/ \E cookie \in Carried, body \in Carried : LegacyLogoutRequest(cookie, body) /\ UNCHANGED clinic

SpecLegacy == Init /\ [][NextLegacy]_vars

\* One browser against the controller on a seeded deployment.
NextBrowser ==
    \/ Tick /\ UNCHANGED ext
    \/ \E c \in Credentials : LoginRequest(c[1], c[2]) /\ UNCHANGED clinic
    \/ \E r \in Reqs : BrowserRefresh(r) /\ UNCHANGED clinic
    \/ \E r \in Reqs : RefreshResponse(r) /\ UNCHANGED clinic
    \/ BrowserLogout /\ UNCHANGED clinic

SpecBrowser == Init /\ [][NextBrowser]_vars

\* Deactivation and reactivation by an admin while clients log in and refresh.
NextDeactivate ==
    \/ Tick /\ UNCHANGED ext
    \/ \E e \in {"patient1@example.com", "dr.smith@healthconsult.com"} :
          Login(e, "password123") /\ UNCHANGED ext
    \/ \E u \in 1..MaxUsers : DeleteUser(u) /\ UNCHANGED ext
    \/ \E u \in 1..MaxUsers : DeleteDoctor(u) /\ UNCHANGED ext
    \/ \E u \in 1..MaxUsers, a \in BOOLEAN : UpdateUser(u, a) /\ UNCHANGED ext
    \/ \E tok \in Held : RefreshStart(1, tok) /\ UNCHANGED ext
    \/ \E r \in Reqs : RefreshRevokeAll(r) /\ UNCHANGED ext
    \/ \E r \in Reqs : RefreshCommit(r) /\ UNCHANGED ext

SpecDeactivate == Init /\ [][NextDeactivate]_vars

\* What a client can post to /auth/register
RegisterBodies ==
    [email : {"patient1@example.com", "dr.smith@healthconsult.com", "not-an-email"},
     password : Passwords, role : {"PATIENT", "DOCTOR", "ADMIN", ""}]

\* Self-registration on a fresh deployment within one clock instant, two
\* calls in flight.
NextSignup ==
    \/ \E r \in Reqs, body \in RegisterBodies : RegisterRequest(r, body) /\ UNCHANGED clinic
    \/ \E r \in Reqs : RegisterCreateUser(r) /\ UNCHANGED clinic
    \/ \E r \in Reqs : RegisterCreateUserFail(r) /\ UNCHANGED clinic
    \/ \E r \in Reqs : RegisterCreateSession(r) /\ UNCHANGED clinic
    \/ \E r \in Reqs : RegisterCreateSessionFail(r) /\ UNCHANGED clinic

SpecSignup == InitEmpty /\ [][NextSignup]_vars

\* The store after seed.ts with its administrator
SeedWithAdmin ==
    Append(SeedUsers,
           [email |-> "admin@healthconsult.com", passwordHash |-> hashPassword("password123"),
            role |-> "ADMIN", isActive |-> TRUE])

InitGate ==
    /\ now = 0
    /\ cfg \in [JWT_SECRET : {"k_access"}, JWT_REFRESH_SECRET : {"k_access", "k_refresh"},
                JWT_ACCESS_EXPIRE : {1}, JWT_REFRESH_EXPIRE : {SESSION_DAYS}]
    /\ users = SeedWithAdmin
    /\ sessions = <<>>
    /\ lineage = {}
    /\ killed = {}
    /\ req = [r \in Reqs |-> IdleReq]
    /\ resp = [op |-> "none", email |-> "", tok |-> NoToken, status |-> 0, code |-> "",
               message |-> "", rep |-> FALSE]
    /\ reg = [r \in Reqs |-> IdleReg]
    /\ refreshTokens = <<>>
    /\ jar = EmptyJar
    /\ NoClinic

\* Users of the three roles log in and call the gated routers with any token
\* they were given, none, or junk.
NextGate ==
    \/ Tick /\ UNCHANGED ext
    \/ \E u \in 1..Len(users) : Login(users[u].email, "password123") /\ UNCHANGED ext
    \/ \E router \in Routers, bearer \in Bearers : GatedRequest(router, bearer) /\ UNCHANGED clinic

SpecGate == InitGate /\ [][NextGate]_vars

\* Profile ids of the patients and the doctors of the clinic
Patients == {1, 2}
Doctors == {1, 2}

\* No rating yet: ratingAverage 0, ratingCount 0 (the columns' defaults)
NoRatings == [d \in Doctors |-> [ratingAverage |-> <<0, 1>>, ratingCount |-> 0]]

\* The tables of the session subsystem at rest
InitAuthIdle ==
    /\ now = 0
    /\ cfg = [JWT_SECRET |-> "k_access", JWT_REFRESH_SECRET |-> "k_refresh",
              JWT_ACCESS_EXPIRE |-> 1, JWT_REFRESH_EXPIRE |-> SESSION_DAYS]
    /\ users = SeedUsers
    /\ sessions = <<>>
    /\ lineage = {}
    /\ killed = {}
    /\ req = [r \in Reqs |-> IdleReq]
    /\ resp = [op |-> "none", email |-> "", tok |-> NoToken, status |-> 0, code |-> "",
               message |-> "", rep |-> FALSE]
    /\ reg = [r \in Reqs |-> IdleReg]
    /\ refreshTokens = <<>>
    /\ jar = EmptyJar

\* Two booked appointments, one with each doctor
InitAppointments ==
    /\ InitAuthIdle
    /\ appts = << [patientId |-> 1, doctorId |-> 1, status |-> "PENDING"],
                  [patientId |-> 2, doctorId |-> 2, status |-> "PENDING"] >>
    /\ ratings = <<>>
    /\ doctors = NoRatings
    /\ call = [c \in Reqs |-> IdleCall]

\* Doctors and admins update the status of appointments, two doctor calls in
\* flight.
NextAppointments ==
    \/ \E c \in Reqs, d \in Doctors, a \in 1..3, st \in APPOINTMENT_STATUS :
          DoctorUpdateStart(c, d, a, st)
    \/ \E c \in Reqs : DoctorUpdateCommit(c)
    \/ \E a \in 1..3, st \in APPOINTMENT_STATUS : AdminUpdateAppointment(a, st)

SpecAppointments == InitAppointments /\ [][NextAppointments]_vars

MaxRatings == 2

\* Appointments after some clinic days: two completed ones with doctor 1, a
\* confirmed one with doctor 2
InitRatings ==
    /\ InitAuthIdle
    /\ appts = << [patientId |-> 1, doctorId |-> 1, status |-> "COMPLETED"],
                  [patientId |-> 2, doctorId |-> 1, status |-> "COMPLETED"],
                  [patientId |-> 1, doctorId |-> 2, status |-> "CONFIRMED"] >>
    /\ ratings = <<>>
    /\ doctors = NoRatings
    /\ call = [c \in Reqs |-> IdleCall]

\* Patients rate, admins moderate; two calls in flight.
NextRatings ==
    \/ \E c \in Reqs, p \in Patients, a \in 1..4, d \in Doctors, score \in {0, 5, 6} :
          CreateRatingStart(c, p, a, d, score)
    \/ \E c \in Reqs : CreateRatingCheck(c)
    \/ \E c \in Reqs : CreateRatingCreate(c)
    \/ \E c \in Reqs : RatingFindMany(c)
    \/ \E c \in Reqs : CreateRatingUpdateDoctor(c)
    \/ \E c \in Reqs, id \in 1..(MaxRatings + 1), st \in {"VISIBLE", "HIDDEN"} :
          ModerateRatingStart(c, id, st)
    \/ \E c \in Reqs : ModerateRatingUpdate(c)
    \/ \E c \in Reqs : ModerateRatingUpdateDoctor(c)

SpecRatings == InitRatings /\ [][NextRatings]_vars

----------------------------------------------------------------------------
(* Claims *)

\* The session row of a held token (every token returned has one)
SessionOf(token) == sessions[findUnique(hashToken(token))]

\* Tokens that were exchanged: presented to a refresh that returned a new token
Rotated == {p[1] : p \in lineage} \ {NoToken}

\* C1 (as stated): once refresh(A) has returned B, every later refresh(A)
\* takes the reuse path and ends in TOKEN_REUSE_DETECTED, and once it has,
\* refresh(B) fails too.
C1_Original ==
    /\ \A A \in Rotated : RefreshCheck(A, now).kind = "reuse"
    /\ \A B \in killed : RefreshCheck(B, now).kind # "rotate"

\* C1 (amended): once refresh(A) has returned B, every later refresh(A) fails:
\* with TOKEN_REUSE_DETECTED while A's own expiry and its session's expiresAt
\* have not passed, with INVALID_REFRESH_TOKEN or REFRESH_TOKEN_EXPIRED after;
\* and once a replay of A has ended in TOKEN_REUSE_DETECTED, refresh(B) fails.
C1_RotationInvalidatesPredecessor ==
    /\ \A A \in Rotated :
          LET c == RefreshCheck(A, now) IN
          /\ c.kind # "rotate"
          /\ (verifyRefreshToken(A, now) /\ SessionOf(A).expiresAt >= now)
                 => c.kind = "reuse"
    /\ \A B \in killed : RefreshCheck(B, now).kind # "rotate"
    /\ resp.code = "TOKEN_REUSE_DETECTED" =>
          /\ resp.status = 401
          /\ \A B \in Children(resp.tok) : B \in killed /\ SessionOf(B).revokedAt # NULL

\* C1 witness: a replay of A was detected, and the refresh of its never used
\* successor B then failed on the reuse path as well.
C1_Witness ==
    /\ resp.op = "refresh" /\ resp.code = "TOKEN_REUSE_DETECTED"
    /\ resp.tok \in killed
    /\ Children(resp.tok) = {}

\* C2 (as stated): of two concurrent refresh calls with the same token at most
\* one completes rotation: one presented token never has two successor
\* sessions that are active together.
C2_AtMostOneRotation ==
    \A A \in Rotated :
        Cardinality({B \in Children(A) : Active(SessionOf(B), now)}) <= 1

\* C3: when refresh returns TOKEN_REUSE_DETECTED, no session of the replayed
\* session's user that existed before the return is still active.
C3_ReuseRevokesAll ==
    [][\A r \in Reqs :
          (req[r].pc = "reuse" /\ req'[r].pc = "idle") =>
              /\ resp'.code = "TOKEN_REUSE_DETECTED"
              /\ resp'.tok = req[r].tok
              /\ Len(sessions') = Len(sessions)
              /\ \A i \in 1..Len(sessions) :
                    sessions'[i].userId = sessions[req[r].sid].userId
                        => ~Active(sessions'[i], now')]_vars

\* C3 witness: reuse was detected while the user had another session, which
\* the handler revoked (it was never rotated).
C3_Witness ==
    /\ resp.code = "TOKEN_REUSE_DETECTED"
    /\ \E B \in killed : Children(B) = {} /\ SessionOf(B).revokedAt # NULL
                          /\ SessionOf(B).expiresAt > now

\* C4: when the rotation transaction of refresh fails (the store rejects it,
\* or the unique index on refreshTokenHash does), the session table is exactly
\* as before, the caller gets an error and no token is issued, and a refresh
\* of the same token that passed the checks before still passes them.
C4_RotationAtomic ==
    [][\A r \in Reqs, tok \in Held :
          (req[r].pc = "rotate" /\ req[r].tok = tok /\ req'[r].pc = "idle"
              /\ resp'.code # "OK") =>
              /\ resp'.op = "refresh" /\ resp'.tok = tok
              /\ resp'.status >= 400
              /\ sessions' = sessions
              /\ lineage' = lineage
              /\ RefreshCheck(tok, now).kind = "rotate"
                     => (RefreshCheck(tok, now).kind = "rotate")']_vars

\* C4 witness: a rotation failed with a store error, the old session is still
\* active, has no successor, and a retry would pass the checks.
C4_Witness ==
    /\ resp.op = "refresh" /\ resp.code = "INTERNAL_SERVER_ERROR"
    /\ Children(resp.tok) = {}
    /\ Active(SessionOf(resp.tok), now)
    /\ RefreshCheck(resp.tok, now).kind = "rotate"

\* C5: logout never errors; after logout(token) the session of hash(token), if
\* there is one, is revoked; and a logout(token) that directly follows a
\* logout(token) changes nothing in the session table (revokedAt keeps the
\* value the first call set).
C5_LogoutIdempotent ==
    /\ [](resp.op = "logout" =>
             /\ resp.code = "OK" /\ resp.status = 200
             /\ HashTaken(hashToken(resp.tok)) => SessionOf(resp.tok).revokedAt # NULL)
    /\ [][(resp'.op = "logout" /\ resp'.rep) => sessions' = sessions]_vars

\* C5 witness: logout was called a second time, on a later day than the first;
\* the session still carries the first call's revokedAt.
C5_Witness ==
    /\ resp.op = "logout" /\ resp.rep
    /\ HashTaken(hashToken(resp.tok))
    /\ SessionOf(resp.tok).revokedAt # NULL
    /\ SessionOf(resp.tok).revokedAt < now

\* C6: a logout(token) changes at most one row of the session table, the row
\* whose refreshTokenHash is hash(token), and that one only from not revoked
\* to revoked now; so with no matching row, or a revoked one, nothing changes.
\* It reports success in every case.
C6_LogoutFrame ==
    [][resp'.op = "logout" =>
          /\ resp'.code = "OK"
          /\ Len(sessions') = Len(sessions)
          /\ \A i \in 1..Len(sessions) :
                sessions'[i] # sessions[i] =>
                    /\ sessions[i].refreshTokenHash = hashToken(resp'.tok)
                    /\ sessions[i].revokedAt = NULL
                    /\ sessions'[i] = [sessions[i] EXCEPT !.revokedAt = now]
          /\ Cardinality({i \in 1..Len(sessions) : sessions'[i] # sessions[i]}) <= 1]_vars

\* C6 witness: a session was logged out while its user has another session,
\* which is still not revoked.
C6_Witness ==
    /\ resp.op = "logout"
    /\ HashTaken(hashToken(resp.tok))
    /\ SessionOf(resp.tok).revokedAt # NULL
    /\ \E i \in SessionIds :
          /\ sessions[i].userId = SessionOf(resp.tok).userId
          /\ sessions[i].refreshTokenHash # hashToken(resp.tok)
          /\ sessions[i].revokedAt = NULL

\* C7 (as stated): a refresh with a token whose session has expiresAt in the
\* past yields REFRESH_TOKEN_EXPIRED, whatever the token's own expiry.
C7_Original ==
    \A tok \in Held :
        SessionOf(tok).expiresAt < now
            => RefreshCheck(tok, now).kind = "REFRESH_TOKEN_EXPIRED"

\* C7 (amended): a refresh with a token that verifyRefreshToken accepts (its
\* own expiry has not passed) and whose session has expiresAt in the past
\* yields REFRESH_TOKEN_EXPIRED with status 401, whatever the session's
\* revokedAt, and leaves sessions and issued tokens as they were; when the
\* token's own expiry has passed the answer is INVALID_REFRESH_TOKEN.
C7_ExpiredSession ==
    [][\A tok \in Held :
          (RefreshStart(1, tok) /\ SessionOf(tok).expiresAt < now) =>
              /\ resp'.op = "refresh" /\ resp'.tok = tok /\ resp'.status = 401
              /\ resp'.code = IF verifyRefreshToken(tok, now)
                              THEN "REFRESH_TOKEN_EXPIRED"
                              ELSE "INVALID_REFRESH_TOKEN"
              /\ sessions' = sessions /\ lineage' = lineage /\ req' = req]_vars

\* C7 witness: REFRESH_TOKEN_EXPIRED was answered for a session that is
\* revoked as well as expired.
C7_Witness ==
    /\ resp.op = "refresh" /\ resp.code = "REFRESH_TOKEN_EXPIRED"
    /\ SessionOf(resp.tok).revokedAt # NULL
    /\ SessionOf(resp.tok).expiresAt < now

\* C8 (as stated): every token a refresh issued was issued for a session that
\* was active at the check: its expiresAt strictly after the time of the check
\* (the new token's iat), the boundary expiresAt = now excluded.
C8_RefreshOnlyForActive ==
    \A p \in lineage :
        p[1] # NoToken => SessionOf(p[1]).expiresAt > p[2].iat

\* C9 (as stated): after a refresh failed on a revoked or an expired session,
\* no session of that session's user is active.
C9_Original ==
    (resp.op = "refresh" /\ resp.code \in {"TOKEN_REUSE_DETECTED", "REFRESH_TOKEN_EXPIRED"}) =>
        \A i \in SessionIds :
            sessions[i].userId = SessionOf(resp.tok).userId => ~Active(sessions[i], now)

\* C9 (amended): a refresh on a revoked session that has not expired goes to
\* the reuse handler, and after its TOKEN_REUSE_DETECTED every session of the
\* user is revoked; a refresh on an expired session fails with
\* REFRESH_TOKEN_EXPIRED and revokes nothing.
C9_TerminalStates ==
    /\ [][\A tok \in Held :
             (RefreshStart(1, tok) /\ verifyRefreshToken(tok, now)) =>
                 /\ (SessionOf(tok).expiresAt >= now /\ SessionOf(tok).revokedAt # NULL)
                        => req'[1].pc = "reuse" /\ req'[1].tok = tok
                 /\ SessionOf(tok).expiresAt < now
                        => resp'.code = "REFRESH_TOKEN_EXPIRED" /\ sessions' = sessions]_vars
    /\ []((resp.op = "refresh" /\ resp.code = "TOKEN_REUSE_DETECTED") =>
             \A i \in SessionIds :
                 sessions[i].userId = SessionOf(resp.tok).userId
                     => sessions[i].revokedAt # NULL)

\* C9 witness: a refresh failed on an expired session while the same user has
\* an active session, which stays active.
C9_Witness ==
    /\ resp.op = "refresh" /\ resp.code = "REFRESH_TOKEN_EXPIRED"
    /\ \E i \in SessionIds :
          /\ sessions[i].userId = SessionOf(resp.tok).userId
          /\ Active(sessions[i], now)

InvalidCredentials ==
    [status |-> 401, code |-> "INVALID_CREDENTIALS", message |-> "Invalid credentials"]

\* C10 (as stated): login with an email that exists, whatever isActive, and a
\* wrong password, and login with an email that does not exist, both get
\* 401 INVALID_CREDENTIALS 'Invalid credentials'.
C10_Original ==
    \A e \in Emails, p \in Passwords :
        (UserByEmail(e) = 0 \/ ~comparePassword(p, users[UserByEmail(e)].passwordHash))
            => LoginCheck(e, p) = InvalidCredentials

\* C10 (amended): login with the email of an active user and a wrong password,
\* and login with an email that does not exist, both get 401
\* INVALID_CREDENTIALS 'Invalid credentials'; login with the email of a
\* deactivated user gets 403 ACCOUNT_DEACTIVATED whatever the password.
C10_NoEnumeration ==
    /\ \A e \in Emails, p \in Passwords :
          LET u == UserByEmail(e) IN
          /\ u = 0 => LoginCheck(e, p) = InvalidCredentials
          /\ (u # 0 /\ users[u].isActive /\ ~comparePassword(p, users[u].passwordHash))
                 => LoginCheck(e, p) = InvalidCredentials
          /\ (u # 0 /\ ~users[u].isActive)
                 => (LoginCheck(e, p).status = 403 /\ LoginCheck(e, p).code = "ACCOUNT_DEACTIVATED")
    /\ (resp.op = "login" /\ resp.status = 401) =>
          (resp.code = "INVALID_CREDENTIALS" /\ resp.message = "Invalid credentials")

\* C10 witness: a login with a registered, active user's email and a wrong
\* password was answered INVALID_CREDENTIALS while some email is unregistered.
C10_Witness ==
    /\ resp.op = "login" /\ resp.code = "INVALID_CREDENTIALS"
    /\ UserByEmail(resp.email) # 0
    /\ users[UserByEmail(resp.email)].isActive
    /\ \E e \in Emails : UserByEmail(e) = 0

\* C11 (as stated): a register or login call that ends in an error has left
\* users and sessions as they were before the call: the call has created no
\* user, and its last step writes nothing.
C11_ErrorsLeaveStore ==
    [][/\ \A r \in Reqs :
             (reg[r].pc # "idle" /\ reg'[r].pc = "idle" /\ resp'.code # "OK") =>
                 /\ reg[r].uid = 0
                 /\ users' = users /\ sessions' = sessions
       /\ (resp' # resp /\ resp'.op = "login" /\ resp'.code # "OK") =>
             (users' = users /\ sessions' = sessions)]_vars

\* C12 (as stated): no two users share an email, and every register call
\* that fails because the email is taken fails with USER_EXISTS.
C12_EmailUnique ==
    /\ \A u, v \in 1..Len(users) : users[u].email = users[v].email => u = v
    /\ (resp.op = "register" /\ resp.status = 409) => resp.code = "USER_EXISTS"

\* C13 (as stated): a refresh token sent as bearer token is answered 401 by
\* authenticate, and an access token presented to refresh is answered
\* INVALID_REFRESH_TOKEN, under every accepted configuration.
C13_TokenSeparation ==
    /\ (resp.op = "me" /\ resp.tok \in Held) => resp.status = 401
    /\ (resp.op = "refresh" /\ resp.tok \in AccessIssued)
           => resp.code = "INVALID_REFRESH_TOKEN"

\* C19: GET /me with an access token that verifyAccessToken accepts answers
\* 200 with the projection of the token's user whether or not that user has
\* been deactivated, and 401 once the token has expired; login is where
\* deactivation is checked: for a deactivated user it answers 403
\* ACCOUNT_DEACTIVATED whatever the password.
C19_DeactivationAtLoginOnly ==
    /\ [][\A tok \in AccessIssued :
             GetMe(tok) =>
                 IF verifyAccessToken(tok, now)
                 THEN /\ resp'.status = 200 /\ resp'.code = "OK"
                      /\ resp'.email = users[tok.id].email
                 ELSE resp'.status = 401]_vars
    /\ [](\A u \in 1..Len(users), p \in Passwords :
             ~users[u].isActive =>
                 /\ LoginCheck(users[u].email, p).status = 403
                 /\ LoginCheck(users[u].email, p).code = "ACCOUNT_DEACTIVATED")

\* C19 witness: GET /me answered 200 for a user who is deactivated, with an
\* access token issued before.
C19_Witness ==
    /\ resp.op = "me" /\ resp.status = 200
    /\ resp.tok \in AccessIssued
    /\ ~users[resp.tok.id].isActive
    /\ resp.email = users[resp.tok.id].email

\* C14 (as stated): no stored row holds a refresh token a client was given;
\* every session row holds the hash of the token it was created for.
C14_RawTokenNeverStored ==
    /\ \A i \in 1..Len(refreshTokens) : refreshTokens[i].token \notin Held
    /\ \A i \in SessionIds :
          \E tok \in Held : sessions[i].refreshTokenHash = hashToken(tok)

\* C17 (as stated): the outcome and the state change of a refresh or logout
\* request depend on the cookie alone: a request with a refreshToken field in
\* its body does what the same request without the field does, and a request
\* without the cookie is answered REFRESH_TOKEN_MISSING and changes no table.
C17_CookieOnly ==
    [][\A cookie \in Carried, body \in Carried :
          /\ LegacyRefreshRequest(cookie, body) => LegacyRefreshRequest(cookie, NoToken)
          /\ LegacyLogoutRequest(cookie, body) => LegacyLogoutRequest(cookie, NoToken)
          /\ (cookie = NoToken /\ (\/ LegacyRefreshRequest(cookie, body)
                                   \/ LegacyLogoutRequest(cookie, body)))
                 => /\ resp'.code = "REFRESH_TOKEN_MISSING"
                    /\ refreshTokens' = refreshTokens /\ sessions' = sessions]_vars

\* The codes of the errors AuthService and the controller raise themselves
DomainErrors ==
    {"USER_EXISTS", "INVALID_CREDENTIALS", "ACCOUNT_DEACTIVATED", "INVALID_REFRESH_TOKEN",
     "REFRESH_TOKEN_EXPIRED", "TOKEN_REUSE_DETECTED", "REFRESH_TOKEN_MISSING",
     "USER_NOT_FOUND"}

\* C15 (as stated): two issuances never produce the same refresh token: every
\* refresh returns a token different from the one presented, no two sessions
\* share a refreshTokenHash, and no register, login or refresh fails on the
\* unique index of refreshTokenHash.
C15_TokensDistinct ==
    /\ \A p \in lineage : p[1] # p[2]
    /\ \A i, j \in SessionIds :
          sessions[i].refreshTokenHash = sessions[j].refreshTokenHash => i = j
    /\ resp.code # "DUPLICATE_ENTRY"

\* C16 (as stated): every session expires exactly the configured refresh TTL
\* after its creation, that is, together with the token it was created for.
C16_ExpiresAtIsConfiguredTtl ==
    \A tok \in Held :
        HashTaken(hashToken(tok)) =>
            SessionOf(tok).expiresAt = tok.iat + cfg.JWT_REFRESH_EXPIRE

\* C20 (as stated): a failure of register, login, refresh or logout that is
\* not a domain error is answered 500 INTERNAL_SERVER_ERROR.
C20_StorageErrorsAreInternal ==
    (/\ resp.op \in {"register", "login", "refresh", "logout"}
     /\ resp.code \notin DomainErrors \cup {"OK"})
        => (resp.status = 500 /\ resp.code = "INTERNAL_SERVER_ERROR")

\* C18 (as stated): the browser presents the cookie it holds to the refresh
\* route and to the logout route, and a logout of a browser that holds the
\* cookie is answered OK and leaves the cookie's session revoked.
C18_CookieReachesLogout ==
    /\ [](jar.value # NoToken =>
             /\ CookieSent(REFRESH_ROUTE) = jar.value
             /\ CookieSent(LOGOUT_ROUTE) = jar.value)
    /\ [][\A tok \in Held :
             (jar.value = tok /\ BrowserLogout) =>
                 /\ resp'.code = "OK"
                 /\ SessionOf(tok)'.revokedAt # NULL]_vars

\* C21 (as stated): no step deletes a session row, and a revokedAt that has
\* been set is neither cleared nor written again with another value.
C21_SessionsMonotonic ==
    [][/\ Len(sessions') >= Len(sessions)
       /\ \A i \in SessionIds :
             /\ sessions'[i].userId = sessions[i].userId
             /\ sessions'[i].refreshTokenHash = sessions[i].refreshTokenHash
             /\ sessions[i].revokedAt # NULL =>
                    sessions'[i].revokedAt = sessions[i].revokedAt]_vars

\* C27 (as stated): once logout(T) has returned, no refresh(T) returns new
\* tokens or creates a successor of T; stated for the response that follows
\* the logout's.
C27_LogoutTerminal ==
    [][\A tok \in Held :
          (resp.op = "logout" /\ resp.tok = tok /\ resp.code = "OK") =>
              /\ ~(resp'.op = "refresh" /\ resp'.tok = tok /\ resp'.code = "OK")
              /\ Children(tok)' = Children(tok)]_vars

\* C28 (as stated): once a refresh has been answered TOKEN_REUSE_DETECTED,
\* the user of the presented token has no active session until a login, and
\* no refresh of that user's tokens is answered with new tokens; stated for
\* the step that follows the detection.
C28_ReuseKillsInFlight ==
    [][(resp.code = "TOKEN_REUSE_DETECTED" /\ resp'.op # "login") =>
          /\ \A i \in 1..Len(sessions') :
                sessions'[i].userId = resp.tok.id => ~Active(sessions'[i], now')
          /\ ~(resp'.op = "refresh" /\ resp'.code = "OK" /\ resp'.tok.id = resp.tok.id)]_vars

\* C22: every session row belongs to the user named by the id claim of the
\* token whose hash it stores, and the tokens a refresh returns carry the id,
\* email and role claims of the token presented.
C22_LineageOwnership ==
    /\ \A tok \in Held :
          HashTaken(hashToken(tok)) => SessionOf(tok).userId = tok.id
    /\ \A i \in SessionIds :
          \E tok \in Held : /\ sessions[i].refreshTokenHash = hashToken(tok)
                            /\ sessions[i].userId = tok.id
    /\ \A p \in lineage :
          p[1] # NoToken =>
              /\ p[2].id = p[1].id /\ p[2].email = p[1].email /\ p[2].role = p[1].role
              /\ AccessOf(p[2]).id = p[1].id
              /\ AccessOf(p[2]).email = p[1].email
              /\ AccessOf(p[2]).role = p[1].role

\* C22 witness: the second user's token was exchanged and the successor's
\* session is that user's
C22_Witness ==
    \E p \in lineage :
        /\ p[1] # NoToken /\ p[1].id = 2
        /\ HashTaken(hashToken(p[2]))
        /\ SessionOf(p[2]).userId = 2
        /\ resp.op = "refresh" /\ resp.code = "OK" /\ resp.tok = p[1]

\* C29: deleteUser, deleteDoctor and updateUser(isActive = false) change no
\* session row; a refresh token of a deactivated user that verifies and whose
\* session is active is still taken on the rotation path, and the rotation
\* creates a session of that user that is not revoked and answers OK.
C29_DeactivationLeavesSessions ==
    /\ [][\A u \in 1..MaxUsers :
             (DeleteUser(u) \/ DeleteDoctor(u) \/ UpdateUser(u, FALSE)) =>
                 sessions' = sessions]_vars
    /\ [](\A tok \in Held :
             (/\ ~users[tok.id].isActive
              /\ verifyRefreshToken(tok, now)
              /\ HashTaken(hashToken(tok))
              /\ Active(SessionOf(tok), now)) => RefreshCheck(tok, now).kind = "rotate")
    /\ [][\A tok \in Held :
             (/\ req[1].pc = "rotate" /\ req[1].tok = tok
              /\ ~users[tok.id].isActive
              /\ ~HashTaken(hashToken(signRefreshToken(tok, req[1].t)))
              /\ RefreshCommit(1)) =>
                 /\ resp'.code = "OK"
                 /\ Len(sessions') = Len(sessions) + 1
                 /\ sessions'[Len(sessions')].userId = tok.id
                 /\ sessions'[Len(sessions')].revokedAt = NULL]_vars

\* C29 witness: a deactivated user exchanged a token that was itself obtained
\* by a refresh, and holds an unrevoked session again
C29_Witness ==
    /\ resp.op = "refresh" /\ resp.code = "OK"
    /\ resp.tok \in Held /\ ~users[resp.tok.id].isActive
    /\ \E p \in lineage : p[2] = resp.tok /\ p[1] # NoToken
    /\ \E c \in Children(resp.tok) :
          HashTaken(hashToken(c)) /\ Active(SessionOf(c), now)

\* C30: every user row created through POST /auth/register has role PATIENT
\* or DOCTOR, and a request whose role is anything else is answered 400
\* VALIDATION_ERROR without a call of AuthService.register: no user, no
\* session, no registration in flight.
C30_NoSelfRegisteredAdmin ==
    /\ [](\A u \in 1..Len(users) : users[u].role \in {"PATIENT", "DOCTOR"})
    /\ [](\A r \in Reqs : reg[r].pc # "idle" => reg[r].role \in {"PATIENT", "DOCTOR"})
    /\ [][\A body \in RegisterBodies :
             (body.role \notin {"PATIENT", "DOCTOR"} /\ \E r \in Reqs : RegisterRequest(r, body)) =>
                 /\ resp'.status = 400 /\ resp'.code = "VALIDATION_ERROR"
                 /\ users' = users /\ sessions' = sessions /\ reg' = reg]_vars

\* C30 witness: a request with a role outside the enum was rejected on its
\* role alone, after users had registered
C30_Witness ==
    /\ resp.op = "register" /\ resp.code = "VALIDATION_ERROR"
    /\ resp.details = {[path |-> "role", message |-> "Role must be either PATIENT or DOCTOR"]}
    /\ Len(users) > 0 /\ Len(sessions) > 0

\* C24: a handler of the patient, doctor or admin router runs exactly for a
\* bearer token that verifyAccessToken accepts and whose role claim is the
\* router's; no token or a token that does not verify is answered 401, a
\* verified token of another role 403, and the request changes nothing.
C24_RoleGating ==
    [][\A router \in Routers, bearer \in Bearers :
          GatedRequest(router, bearer) =>
              /\ resp'.code = "OK" <=>
                     /\ bearer # NoToken
                     /\ verifyAccessToken(bearer, now)
                     /\ bearer.role \in AllowedRoles(router)
              /\ (bearer = NoToken \/ ~verifyAccessToken(bearer, now)) => resp'.status = 401
              /\ (/\ bearer # NoToken /\ verifyAccessToken(bearer, now)
                  /\ bearer.role \notin AllowedRoles(router)) => resp'.status = 403
              /\ users' = users /\ sessions' = sessions]_vars

\* C24 witness: a patient's valid access token was refused by the admin router
C24_Witness ==
    /\ resp.op = "admin" /\ resp.status = 403 /\ resp.code = "FORBIDDEN"
    /\ resp.tok \in AccessIssued /\ verifyAccessToken(resp.tok, now)
    /\ resp.tok.role = "PATIENT"

\* C23 (as stated): the status of an appointment changes only along
\* APPOINTMENT_TRANSITIONS, so CANCELLED and COMPLETED are final, and a doctor
\* update answered INVALID_STATUS_TRANSITION changes no appointment.
C23_StatusFollowsTransitions ==
    [][/\ \A a \in 1..Len(appts) :
             appts'[a].status # appts[a].status =>
                 appts'[a].status \in APPOINTMENT_TRANSITIONS(appts[a].status)
       /\ (resp' # resp /\ resp'.code = "INVALID_STATUS_TRANSITION") => appts' = appts]_vars

\* The codes createRating rejects a call with
RatingRejections ==
    {"APPOINTMENT_NOT_FOUND", "APPOINTMENT_NOT_COMPLETED", "RATING_EXISTS", "INVALID_SCORE"}

C26_RatingCountIsVisibleCount ==
    (\A c \in Reqs : call[c].pc = "idle") =>
        \A d \in Doctors : doctors[d].ratingCount = Cardinality(VisibleOf(d))

====
